---- MODULE Spec2Model ----
(***************************************************************************)
(* Doris get_connection (TLS merge into connectionArguments, delegation to *)
(* the generic engine builder) and TrinoSampler (dialect patch in          *)
(* __init__, NaN filter of _base_sample_query).                            *)
(***************************************************************************)
EXTENDS Naturals, Sequences, FiniteSets, TLC

VARIABLES
    ssl,                  \* connection.ssl: None or Some(bundle)
    connectionArguments,  \* connection.connectionArguments: None or Some(map)
    calls,                \* number of get_connection calls made on the descriptor
    argsBefore,           \* connectionArguments as it was when the last call started
    builderLog,           \* create_generic_db_connection invocations of the last call
    result,               \* what the last get_connection call returned or raised
    table,                \* self.table: sequence of columns [name, type]
    jsonDeserializer,     \* TrinoDialect._json_deserializer (class attribute)
    pc,                   \* position of each TrinoSampler construction
    hookAtBaseInit,       \* the hook value in force when super().__init__ ran
    sample                \* last _base_sample_query call: None or Some([column, label, query])

connVars == <<ssl, connectionArguments, calls, argsBefore, builderLog, result>>
samplerVars == <<table, jsonDeserializer, pc, hookAtBaseInit, sample>>
vars == <<ssl, connectionArguments, calls, argsBefore, builderLog, result,
          table, jsonDeserializer, pc, hookAtBaseInit, sample>>

\* ------------------------------------------------------------ bounds
MaxCalls == 2
MaxCols == 3
NumSamplers == 2

\* ------------------------------------------------------------ Python values
\* Python None and a present value x (optional fields and arguments).
None == <<>>
Some(x) == <<x>>

\* Truthiness of an optional string: None and "" are falsy.
Truthy(field) == field # None /\ field[1] # ""

\* A fresh empty dict.
EmptyMap == [k \in {} |-> ""]

\* d.get(key, default)
DictGet(d, key, default) == IF key \in DOMAIN d THEN d[key] ELSE default

\* d[key] = value
DictSet(d, key, value) ==
    [k \in (DOMAIN d) \cup {key} |-> IF k = key THEN value ELSE d[k]]

\* ------------------------------------------------------------ get_connection
\* The condition of the outer if: any of the three TLS fields is truthy.
AnyTlsSetAlways(bundle) == TRUE
AnyTlsSet(bundle) ==
    \/ Truthy(bundle.caCertificate)
    \/ Truthy(bundle.sslCertificate)
    \/ Truthy(bundle.sslKey)

\* connection.connectionArguments or init_empty_connection_arguments()
ArgsOrEmptyFresh(args) == EmptyMap
ArgsOrEmpty(args) ==
    IF args # None /\ args[1] # EmptyMap THEN args[1] ELSE EmptyMap

\* if <field>: ssl_args[<key>] = <field>
SetSslArgAppend(ssl_args, key, field) ==
    IF Truthy(field)
    THEN DictSet(ssl_args, key, DictGet(ssl_args, key, "") \o field[1])
    ELSE ssl_args
SetSslArg(ssl_args, key, field) ==
    IF Truthy(field) THEN DictSet(ssl_args, key, field[1]) ELSE ssl_args

\* The body of the outer if: the new value of connection.connectionArguments.
MergeSslSwapped(bundle, args) ==
    LET base == ArgsOrEmpty(args)
        s0 == DictGet(base, "ssl", EmptyMap)
        s1 == SetSslArg(s0, "ssl_ca", bundle.caCertificate)
        s2 == SetSslArg(s1, "ssl_key", bundle.sslCertificate)
        s3 == SetSslArg(s2, "ssl_cert", bundle.sslKey)
    IN  Some(DictSet(base, "ssl", s3))
MergeSsl(bundle, args) ==
    LET base == ArgsOrEmpty(args)
        s0 == DictGet(base, "ssl", EmptyMap)
        s1 == SetSslArg(s0, "ssl_ca", bundle.caCertificate)
        s2 == SetSslArg(s1, "ssl_cert", bundle.sslCertificate)
        s3 == SetSslArg(s2, "ssl_key", bundle.sslKey)
    IN  Some(DictSet(base, "ssl", s3))

\* Evaluating connection.ssl.__root__ when connection.ssl is None.
AttributeError == [kind |-> "error", value |-> "AttributeError"]

\* What create_generic_db_connection can do: return an engine or raise.
BuilderOutcomes ==
    { [kind |-> "engine", value |-> "engine"],
      [kind |-> "error", value |-> "builder error"] }

NoResult == [kind |-> "none", value |-> ""]

\* ---- the descriptors get_connection is called on
FieldValues == {None, Some(""), Some("pemA")}
Bundles ==
    [caCertificate : FieldValues, sslCertificate : FieldValues, sslKey : FieldValues]

PriorSslKeys == {"ssl_ca", "ssl_cert", "check_hostname"}
PriorSslValues == {"old", "pemA"}
PriorSslMaps == UNION { [D -> PriorSslValues] : D \in SUBSET PriorSslKeys }
OtherKeys == {"charset", "connect_timeout"}
OtherMaps == { [k \in D |-> "v_" \o k] : D \in SUBSET OtherKeys }
ArgMaps == OtherMaps \cup { DictSet(o, "ssl", s) : o \in OtherMaps, s \in PriorSslMaps }

\* ------------------------------------------------------------ TrinoSampler
\* metadata.profiler.processor.handle_partition.RANDOM_LABEL
RANDOM_LABEL == "random"

\* metadata.profiler.orm.registry.FLOAT_SET
FLOAT_SET == {"FLOAT", "DECIMAL"}

\* The value the initializer assigns to TrinoDialect._json_deserializer.
PatchedToggle(current) == IF current = "None" THEN "json.loads" ELSE "None"
Patched(current) == "None"

\* [col for col in inspect(self.table).c if col.name != RANDOM_LABEL]
SqaColumnsAll(tbl) == tbl
SqaColumns(tbl) == SelectSeq(tbl, LAMBDA col : col.name # RANDOM_LABEL)

\* type(cols.type) in FLOAT_SET
IsFloatAny(col) == TRUE
IsFloat(col) == col.type \in FLOAT_SET

\* text(f"is_nan({cols.name}) = False")
IsNanFalse(col) == [fn |-> "is_nan", col |-> col.name, equals |-> FALSE]

\* The list comprehension handed to or_.
NanClauses(tbl) ==
    LET floats == SelectSeq(SqaColumns(tbl), IsFloat)
    IN  [i \in 1..Len(floats) |-> IsNanFalse(floats[i])]

\* entity = self.table if column is None else column
EntityTableOnly(column) == [kind |-> "table"]
Entity(column) ==
    IF column = None THEN [kind |-> "table"] ELSE [kind |-> "column", col |-> column[1]]

\* self.client.query(entity, label).where(or_(*clauses))
BaseSampleQuery(tbl, column, label) ==
    [entity |-> Entity(column),
     label  |-> label,
     where  |-> [op |-> "or", clauses |-> NanClauses(tbl)]]

\* ---- rows, to read a filter by what it lets through
CellValues == {"nan", "valid"}
ColumnNames == {"a", "b", "c", RANDOM_LABEL}
ColumnTypes == {"FLOAT", "DECIMAL", "INTEGER"}
Rows == [ColumnNames -> CellValues]

\* is_nan(col) = False, on a row.
ClauseHolds(clause, row) == (row[clause.col] = "nan") = clause.equals

\* A row is returned by the query: an or_ of no clauses renders no WHERE at all.
Passes(query, row) ==
    \/ query.where.clauses = <<>>
    \/ \E i \in 1..Len(query.where.clauses) : ClauseHolds(query.where.clauses[i], row)

\* ---- the tables and arguments the sampler is used with
Columns == [name : ColumnNames, type : ColumnTypes]
Tables ==
    { t \in UNION { [1..n -> Columns] : n \in 0..MaxCols } :
        \A i, j \in 1..Len(t) : i # j => t[i].name # t[j].name }
Labels == {None, Some("lbl")}
Samplers == 1..NumSamplers

IdleSampler ==
    /\ table = <<>>
    /\ jsonDeserializer = "json.loads"
    /\ pc = [s \in Samplers |-> "new"]
    /\ hookAtBaseInit = [s \in Samplers |-> "unset"]
    /\ sample = None

InitConn ==
    /\ IdleSampler
    /\ ssl \in {None} \cup { Some(b) : b \in Bundles }
    /\ connectionArguments \in {None} \cup { Some(m) : m \in ArgMaps }
    /\ calls = 0
    /\ argsBefore = None
    /\ builderLog = <<>>
    /\ result = NoResult

IdleConn ==
    /\ ssl = None
    /\ connectionArguments = None
    /\ calls = 0
    /\ argsBefore = None
    /\ builderLog = <<>>
    /\ result = NoResult

\* One call of get_connection(connection).
GetConnection ==
    /\ calls < MaxCalls
    /\ calls' = calls + 1
    /\ argsBefore' = connectionArguments
    /\ UNCHANGED <<ssl, samplerVars>>
    /\ IF ssl = None
       THEN /\ result' = AttributeError
            /\ builderLog' = <<>>
            /\ UNCHANGED connectionArguments
       ELSE \E outcome \in BuilderOutcomes :
            /\ connectionArguments' =
                   IF AnyTlsSet(ssl[1])
                   THEN MergeSsl(ssl[1], connectionArguments)
                   ELSE connectionArguments
            /\ builderLog' = << [args |-> connectionArguments', outcome |-> outcome] >>
            /\ result' = outcome

NextConn == GetConnection
SpecConn == InitConn /\ [][NextConn]_vars

InitSampler ==
    /\ IdleConn
    /\ table \in Tables
    /\ jsonDeserializer = "json.loads"
    /\ pc = [s \in Samplers |-> "new"]
    /\ hookAtBaseInit = [s \in Samplers |-> "unset"]
    /\ sample = None

\* TrinoSampler.__init__, first statement: TrinoDialect._json_deserializer = None
PatchDialect(s) ==
    /\ pc[s] = "new"
    /\ jsonDeserializer' = Patched(jsonDeserializer)
    /\ pc' = [pc EXCEPT ![s] = "patched"]
    /\ UNCHANGED <<table, hookAtBaseInit, sample, connVars>>

\* TrinoSampler.__init__, second statement: super().__init__(*args, **kwargs)
BaseInit(s) ==
    /\ pc[s] = "patched"
    /\ hookAtBaseInit' = [hookAtBaseInit EXCEPT ![s] = jsonDeserializer]
    /\ pc' = [pc EXCEPT ![s] = "ready"]
    /\ UNCHANGED <<table, jsonDeserializer, sample, connVars>>

\* One call of _base_sample_query(column, label) on a constructed sampler.
BaseSampleQueryCall ==
    /\ \E s \in Samplers : pc[s] = "ready"
    /\ \E column \in {None} \cup { Some(table[i]) : i \in 1..Len(table) }, label \in Labels :
           sample' = Some([column |-> column, label |-> label,
                           query |-> BaseSampleQuery(table, column, label)])
    /\ UNCHANGED <<table, jsonDeserializer, pc, hookAtBaseInit, connVars>>

NextSampler ==
    \/ \E s \in Samplers : PatchDialect(s)
    \/ \E s \in Samplers : BaseInit(s)
    \/ BaseSampleQueryCall
SpecSampler == InitSampler /\ [][NextSampler]_vars

\* ------------------------------------------------------------ properties of get_connection
SslKeys == {"ssl_ca", "ssl_cert", "ssl_key"}

\* The TLS field a key of the "ssl" sub-map is taken from.
FieldOf(key) ==
    CASE key = "ssl_ca"   -> ssl[1].caCertificate
      [] key = "ssl_cert" -> ssl[1].sslCertificate
      [] key = "ssl_key"  -> ssl[1].sslKey

\* The keys whose TLS field is set (non-empty) in the descriptor.
SetKeys == IF ssl = None THEN {} ELSE { k \in SslKeys : Truthy(FieldOf(k)) }

\* The "ssl" sub-map the descriptor held when the last call started (empty if none).
PriorSsl ==
    IF argsBefore # None /\ "ssl" \in DOMAIN argsBefore[1]
    THEN argsBefore[1]["ssl"]
    ELSE EmptyMap

\* C1: with no TLS field set, a call leaves connectionArguments exactly as it
\* was: null stays null, a map keeps every key and value, "ssl" included.
C1_NoTlsLeavesArguments ==
    (calls > 0 /\ SetKeys = {}) => connectionArguments = argsBefore

C1_Witness ==
    /\ calls > 0
    /\ ssl # None
    /\ SetKeys = {}
    /\ ssl[1].caCertificate = Some("")
    /\ connectionArguments = None
    /\ result.kind = "engine"

\* C2 (as stated): with some TLS field set, whatever connectionArguments held
\* before, the "ssl" sub-map afterwards holds exactly the keys of the set
\* fields, each mapped to its field's value, and no other key.
C2_SslHoldsExactlySetKeys ==
    (calls > 0 /\ SetKeys # {}) =>
        /\ connectionArguments # None
        /\ "ssl" \in DOMAIN connectionArguments[1]
        /\ connectionArguments[1]["ssl"] = [k \in SetKeys |-> FieldOf(k)[1]]

\* C2 (amended): with some TLS field set, the "ssl" sub-map afterwards is the
\* prior "ssl" sub-map (empty when there was none) with the key of every set
\* field mapped to that field's value: the set keys carry the field values,
\* prior entries under other keys are kept, and no further key appears.
C2_SslIsPriorOverlaidWithSetKeys ==
    (calls > 0 /\ SetKeys # {}) =>
        /\ connectionArguments # None
        /\ "ssl" \in DOMAIN connectionArguments[1]
        /\ connectionArguments[1]["ssl"] =
               [k \in (DOMAIN PriorSsl) \cup SetKeys |->
                    IF k \in SetKeys THEN FieldOf(k)[1] ELSE PriorSsl[k]]
        /\ (PriorSsl = EmptyMap =>
               DOMAIN connectionArguments[1]["ssl"] = SetKeys)

C2_Witness ==
    /\ calls = 1
    /\ SetKeys = {"ssl_cert"}
    /\ argsBefore # None
    /\ "ssl" \in DOMAIN argsBefore[1]
    /\ DOMAIN argsBefore[1]["ssl"] = {"ssl_cert", "check_hostname"}
    /\ argsBefore[1]["ssl"]["ssl_cert"] = "old"
    /\ connectionArguments[1]["ssl"]["ssl_cert"] = "pemA"

\* C3: with some TLS field set and a connectionArguments map already there,
\* a call changes only the entry under "ssl": every other key is still
\* present with the same value and no other key is added.
C3_OnlySslEntryChanges ==
    (calls > 0 /\ SetKeys # {} /\ argsBefore # None) =>
        /\ connectionArguments # None
        /\ (DOMAIN connectionArguments[1]) \ {"ssl"} = (DOMAIN argsBefore[1]) \ {"ssl"}
        /\ \A k \in (DOMAIN argsBefore[1]) \ {"ssl"} :
               connectionArguments[1][k] = argsBefore[1][k]

C3_Witness ==
    /\ calls = 1
    /\ SetKeys = SslKeys
    /\ argsBefore # None
    /\ DOMAIN argsBefore[1] = {"charset", "connect_timeout"}
    /\ DOMAIN connectionArguments[1] = {"charset", "connect_timeout", "ssl"}

\* C4: a second call on the already mutated descriptor, TLS fields unchanged,
\* leaves connectionArguments (and so its "ssl" sub-map) equal to what the
\* first call left.
C4_SecondCallChangesNothing ==
    calls >= 2 => connectionArguments = argsBefore

C4_Witness ==
    /\ calls = 2
    /\ SetKeys = {"ssl_ca", "ssl_key"}
    /\ connectionArguments # None
    /\ DOMAIN connectionArguments[1]["ssl"] = {"ssl_ca", "ssl_key", "check_hostname"}
    /\ connectionArguments = argsBefore

\* C5: a descriptor whose TLS bundle is absent, or whose TLS fields are all
\* empty, or which sets only some of them, raises no error of get_connection's
\* own: the call reaches the engine builder and ends with the builder's outcome.
C5_MissingTlsIsAccepted ==
    (calls > 0 /\ SetKeys # SslKeys) =>
        /\ result # AttributeError
        /\ Len(builderLog) = 1

\* C9: every call invokes the engine builder exactly once, after the merge
\* (the builder sees the merged connectionArguments), and ends with the
\* builder's own outcome: its engine, or its error unwrapped.
C9_BuilderInvokedOnceAfterMerge ==
    calls > 0 =>
        /\ Len(builderLog) = 1
        /\ builderLog[1].args = connectionArguments
        /\ result = builderLog[1].outcome

\* ------------------------------------------------------------ properties of TrinoSampler
\* The names of the table's float-typed columns other than the random label.
FloatNames ==
    { table[i].name : i \in { j \in 1..Len(table) :
          table[j].type \in FLOAT_SET /\ table[j].name # RANDOM_LABEL } }

\* The columns a query's filter refers to.
FilterColumns(query) ==
    { query.where.clauses[i].col : i \in 1..Len(query.where.clauses) }

\* C6: for a table with no float-typed column besides the random label, the
\* query carries no NaN predicate, and so lets every row through.
C6_NoFloatColumnNoFilter ==
    (sample # None /\ FloatNames = {}) =>
        /\ sample[1].query.where.clauses = <<>>
        /\ \A row \in Rows : Passes(sample[1].query, row)

C6_Witness ==
    /\ sample # None
    /\ FloatNames = {}
    /\ Len(table) = 3
    /\ \E i \in 1..Len(table) : table[i] = [name |-> RANDOM_LABEL, type |-> "FLOAT"]
    /\ sample[1].query.where.clauses = <<>>

\* C7: the filter is the or of one "is_nan(c) = False" predicate per column c
\* of exactly the float-typed columns other than the random label; when there
\* is such a column, a row passes iff at least one of them is not NaN.
C7_FilterIsOrOverFloatColumns ==
    sample # None =>
        LET q == sample[1].query IN
        /\ q.where.op = "or"
        /\ \A i \in 1..Len(q.where.clauses) :
               /\ q.where.clauses[i].fn = "is_nan"
               /\ q.where.clauses[i].equals = FALSE
        /\ FilterColumns(q) = FloatNames
        /\ Len(q.where.clauses) = Cardinality(FloatNames)
        /\ (FloatNames # {} =>
               \A row \in Rows :
                   Passes(q, row) <=> (\E c \in FloatNames : row[c] # "nan"))

C7_Witness ==
    /\ sample # None
    /\ table = << [name |-> "a", type |-> "FLOAT"],
                  [name |-> RANDOM_LABEL, type |-> "FLOAT"],
                  [name |-> "b", type |-> "FLOAT"] >>
    /\ FilterColumns(sample[1].query) = {"a", "b"}
    /\ Passes(sample[1].query, [n \in ColumnNames |-> IF n = "a" THEN "nan" ELSE "valid"])
    /\ ~Passes(sample[1].query, [n \in ColumnNames |-> IF n = "c" THEN "valid" ELSE "nan"])

\* C8: the entity is the whole table when column is null and the given column
\* otherwise, whatever the column types are; the label is passed through
\* unchanged; the filter's columns are the same whichever column was asked for.
C8_EntityAndLabelPassThrough ==
    sample # None =>
        LET q == sample[1].query IN
        /\ (sample[1].column = None => q.entity = [kind |-> "table"])
        /\ (sample[1].column # None =>
               q.entity = [kind |-> "column", col |-> sample[1].column[1]])
        /\ q.label = sample[1].label
        /\ FilterColumns(q) = FloatNames

C8_Witness ==
    /\ sample # None
    /\ sample[1].column # None
    /\ sample[1].column[1].type = "INTEGER"
    /\ sample[1].label = Some("lbl")
    /\ FloatNames # {}
    /\ sample[1].query.entity.kind = "column"

\* C10: once any sampler construction has run its patch, the dialect's JSON
\* deserialization hook is disabled and stays so whatever the other
\* constructions do, and every base initializer runs with the hook disabled.
C10_HookStaysDisabled ==
    /\ ((\E s \in Samplers : pc[s] # "new") => jsonDeserializer = "None")
    /\ \A s \in Samplers : pc[s] = "ready" => hookAtBaseInit[s] = "None"

C10_Witness ==
    /\ \A s \in Samplers : pc[s] = "ready"
    /\ jsonDeserializer = "None"
====
